---- MODULE Spec2Model ----
(***************************************************************************)
(* Model of amplify/agent/util/ssl.py: the certificate field extractors    *)
(* and the ssl_analysis orchestrator.                                      *)
(*                                                                         *)
(* Text.  A line of tool output is a sequence of tokens.  A token is a     *)
(* non-empty run of characters that all belong to the same character       *)
(* classes (letters, digits, one blank, one punctuation character), so a   *)
(* line denotes the string obtained by concatenating its tokens and the    *)
(* regular expressions of the source are evaluated token by token.  The    *)
(* empty line is <<>>.  A dictionary is a function whose domain is its key  *)
(* set; Python's None is the empty sequence and a present value x is <<x>>. *)
(* The module is Python 2 code: map() returns a list, open() raises IOError *)
(* for operating-system errors.                                            *)
(***************************************************************************)
EXTENDS Integers, Sequences, FiniteSets, TLC

(* ------------------------------------------------------------------ *)
(* Bounds of the model                                                  *)
(* ------------------------------------------------------------------ *)
MaxLines == 2
MaxTextLines == 2

(* ------------------------------------------------------------------ *)
(* Character classes of the tokens                                      *)
(* ------------------------------------------------------------------ *)
Digits == {"0", "1", "2", "3", "4", "5", "6", "7", "8", "9"}

Letters ==
    {"a", "b", "c", "com", "US", "New", "York", "Acme", "Inc", "C", "ST", "L",
     "O", "OU", "CN", "DNS", "subject", "issuer", "notBefore", "notAfter",
     "Jan", "Feb", "Mar", "Apr", "May", "Jun", "Jul", "Aug", "Sep", "Oct",
     "Nov", "Dec", "GMT", "UTC", "bad", "Public", "Key", "Algorithm", "Signature",
     "rsa", "sha", "bit", "SSL", "client", "Yes", "Any", "Purpose", "http",
     "ocsp"}

\* \w
IsWord(t) == t \in Letters \cup Digits \cup {"_"}

\* \s
IsSpace(t) == t = " "

\* \d
IsDigit(t) == t \in Digits

None == <<>>

Some(x) == <<x>>

\* dict.update(other)
Update(d, e) == [k \in DOMAIN d \cup DOMAIN e |-> IF k \in DOMAIN e THEN e[k] ELSE d[k]]

\* d[k] = v
Put(d, k, v) == [x \in DOMAIN d \cup {k} |-> IF x = k THEN v ELSE d[x]]

EmptyDict == <<>>

\* `return results`
OrNone_Always(d) == Some(d)

\* `results or None`: an empty dictionary is falsy
OrNone(d) == IF DOMAIN d = {} THEN None ELSE Some(d)

\* the literal lit occurs in line at position i
LitAt(lit, line, i) ==
    /\ i >= 1
    /\ i + Len(lit) - 1 <= Len(line)
    /\ SubSeq(line, i, i + Len(lit) - 1) = lit

\* end (exclusive) of the longest run of tokens of class cls starting at i
RECURSIVE RunEnd(_, _, _)
RunEnd(cls, line, i) ==
    IF i <= Len(line) /\ line[i] \in cls THEN RunEnd(cls, line, i + 1) ELSE i

(* ------------------------------------------------------------------ *)
(* ssl_regexs: the six distinguished-name patterns                      *)
(* ------------------------------------------------------------------ *)
AllTokens == Letters \cup Digits \cup {"_", " ", "-", ".", ",", "'", "/", "=", ":", "(", ")"}

WordCls == {t \in AllTokens : IsWord(t)}

WordSpaceCls == {t \in AllTokens : IsWord(t) \/ IsSpace(t)}

ssl_regexs ==
    << [lit |-> <<"/", "C", "=">>,  name |-> "country",      cls |-> WordCls],
       [lit |-> <<"/", "ST", "=">>, name |-> "state",        cls |-> WordSpaceCls],
       [lit |-> <<"/", "L", "=">>,  name |-> "location",     cls |-> WordSpaceCls],
       [lit |-> <<"/", "O", "=">>,  name |-> "organization", cls |-> WordSpaceCls \cup {",", "'", "-", "."}],
       [lit |-> <<"/", "OU", "=">>, name |-> "unit",         cls |-> WordSpaceCls \cup {",", "-", "."}],
       [lit |-> <<"/", "CN", "=">>, name |-> "common_name",  cls |-> WordSpaceCls \cup {"'", "-", "."}] >>

\* positions where '.*<lit>(?P<name>[cls]+).*' can place its literal
DnStarts(regex, line) ==
    {i \in 1..Len(line) :
        /\ LitAt(regex.lit, line, i)
        /\ RunEnd(regex.cls, line, i + Len(regex.lit)) > i + Len(regex.lit)}

SetMax(S) == CHOOSE x \in S : \A y \in S : y <= x

\* regex.match(line) for a pattern of ssl_regexs: None, or Some(groupdict()).
\* The leading '.*' is greedy, so the last possible position is taken, and the
\* group takes the longest run of its class.
DnMatch(regex, line) ==
    LET starts == DnStarts(regex, line) IN
    IF starts = {} THEN None
    ELSE LET b == SetMax(starts) + Len(regex.lit)
             e == RunEnd(regex.cls, line, b)
         IN Some([k \in {regex.name} |-> SubSeq(line, b, e - 1)])

(* ------------------------------------------------------------------ *)
(* str.split(sep)                                                       *)
(* ------------------------------------------------------------------ *)
\* first position >= i where sep occurs in line, or 0
RECURSIVE FindFrom(_, _, _)
FindFrom(sep, line, i) ==
    IF i + Len(sep) - 1 > Len(line) THEN 0
    ELSE IF LitAt(sep, line, i) THEN i
    ELSE FindFrom(sep, line, i + 1)

\* line.split(sep): the parts between the non-overlapping occurrences of sep
RECURSIVE Split(_, _)
Split(line, sep) ==
    LET p == FindFrom(sep, line, 1) IN
    IF p = 0 THEN <<line>>
    ELSE <<SubSeq(line, 1, p - 1)>> \o Split(SubSeq(line, p + Len(sep), Len(line)), sep)

(* ------------------------------------------------------------------ *)
(* datetime.strptime(value, '%b %d %H:%M:%S %Y %Z').strftime('%s')      *)
(* ------------------------------------------------------------------ *)
MonthNames == <<"Jan", "Feb", "Mar", "Apr", "May", "Jun", "Jul", "Aug", "Sep", "Oct", "Nov", "Dec">>

ZoneNames == {"GMT", "UTC"}

DigitVal(t) ==
    CASE t = "0" -> 0 [] t = "1" -> 1 [] t = "2" -> 2 [] t = "3" -> 3 [] t = "4" -> 4
      [] t = "5" -> 5 [] t = "6" -> 6 [] t = "7" -> 7 [] t = "8" -> 8 [] t = "9" -> 9

\* int(s) of a string of decimal digits
RECURSIVE ToInt(_)
ToInt(ds) ==
    IF ds = <<>> THEN 0
    ELSE 10 * ToInt(SubSeq(ds, 1, Len(ds) - 1)) + DigitVal(ds[Len(ds)])

\* the value cut into the items the format distinguishes: runs of digits,
\* runs of blanks (a blank of the format matches \s+), and single tokens
RECURSIVE Items(_, _)
Items(v, i) ==
    IF i > Len(v) THEN <<>>
    ELSE IF IsDigit(v[i]) THEN
        LET e == RunEnd(Digits, v, i) IN
        <<[k |-> "num", t |-> "", d |-> SubSeq(v, i, e - 1)]>> \o Items(v, e)
    ELSE IF IsSpace(v[i]) THEN
        LET e == RunEnd({" "}, v, i) IN
        <<[k |-> "sp", t |-> "", d |-> <<>>]>> \o Items(v, e)
    ELSE <<[k |-> "tok", t |-> v[i], d |-> <<>>]>> \o Items(v, i + 1)

IsNum(it, minw, maxw, lo, hi) ==
    /\ it.k = "num"
    /\ Len(it.d) >= minw
    /\ Len(it.d) <= maxw
    /\ ToInt(it.d) >= lo
    /\ ToInt(it.d) <= hi

IsTok(it, S) == it.k = "tok" /\ it.t \in S

IsLeap(y) == (y % 4 = 0 /\ y % 100 # 0) \/ y % 400 = 0

DaysInMonth(y, m) ==
    IF m = 2 THEN (IF IsLeap(y) THEN 29 ELSE 28)
    ELSE IF m \in {4, 6, 9, 11} THEN 30 ELSE 31

MonthNum(t) == CHOOSE m \in 1..12 : MonthNames[m] = t

\* days between 1970-01-01 and the civil date y-m-d
DaysFromCivil(y, m, d) ==
    LET yy  == IF m <= 2 THEN y - 1 ELSE y
        era == yy \div 400
        yoe == yy - era * 400
        mp  == (m + 9) % 12
        doy == (153 * mp + 2) \div 5 + d - 1
        doe == yoe * 365 + yoe \div 4 - yoe \div 100 + doy
    IN era * 146097 + doe - 719468

\* the value has the shape 'Mon DD HH:MM:SS YYYY TZ' and names a date the
\* datetime type and strftime('%s') accept
DateOk(v) ==
    LET it == Items(v, 1) IN
    /\ Len(it) = 13
    /\ IsTok(it[1], {MonthNames[m] : m \in 1..12})
    /\ it[2].k = "sp"
    /\ IsNum(it[3], 1, 2, 1, 31)
    /\ it[4].k = "sp"
    /\ IsNum(it[5], 1, 2, 0, 23)
    /\ IsTok(it[6], {":"})
    /\ IsNum(it[7], 1, 2, 0, 59)
    /\ IsTok(it[8], {":"})
    /\ IsNum(it[9], 1, 2, 0, 59)
    /\ it[10].k = "sp"
    /\ IsNum(it[11], 4, 4, 1900, 9999)
    /\ it[12].k = "sp"
    /\ IsTok(it[13], ZoneNames)
    /\ ToInt(it[3].d) <= DaysInMonth(ToInt(it[11].d), MonthNum(it[1].t))

\* the timestamp of a value that DateOk accepts (host clock in UTC)
Epoch(v) ==
    LET it == Items(v, 1) IN
    DaysFromCivil(ToInt(it[11].d), MonthNum(it[1].t), ToInt(it[3].d)) * 86400
        + ToInt(it[5].d) * 3600 + ToInt(it[7].d) * 60 + ToInt(it[9].d)

(* ------------------------------------------------------------------ *)
(* The field extractors.  Each takes the lines the command runner       *)
(* returned and yields [exc, val]: exc is "" when it returns val, else   *)
(* the class of the exception it raises.                                *)
(* ------------------------------------------------------------------ *)
Return(v) == [exc |-> "", val |-> v]

Raise(e) == [exc |-> e, val |-> None]

DateKeys == [k \in {<<"notBefore">>, <<"notAfter">>} |-> IF k = <<"notBefore">> THEN "start" ELSE "end"]

\* the body of the loop of certificate_dates for one line
DatesLine(line, results) ==
    IF line = <<>> THEN Return(results)
    ELSE LET parts == Split(line, <<"=">>) IN
         IF Len(parts) # 2 THEN Raise("ValueError")
         ELSE IF parts[1] \notin DOMAIN DateKeys THEN Return(results)
         ELSE IF ~DateOk(parts[2]) THEN Raise("ValueError")
         ELSE Return(Put(results, DateKeys[parts[1]], Epoch(parts[2])))

RECURSIVE DatesLoop(_, _, _)
DatesLoop(out, i, results) ==
    IF i > Len(out) THEN Return(OrNone(results))
    ELSE LET r == DatesLine(out[i], results) IN
         IF r.exc # "" THEN r ELSE DatesLoop(out, i + 1, r.val)

certificate_dates(out) == DatesLoop(out, 1, EmptyDict)

\* the inner loop of certificate_subject / certificate_issuer for one line
RECURSIVE DnLine(_, _, _)
DnLine(line, n, results) ==
    IF n > Len(ssl_regexs) THEN results
    ELSE LET match_obj == DnMatch(ssl_regexs[n], line) IN
         DnLine(line, n + 1, IF match_obj # None THEN Update(results, match_obj[1]) ELSE results)

RECURSIVE DnLoop(_, _, _)
DnLoop(out, i, results) ==
    IF i > Len(out) THEN results
    ELSE DnLoop(out, i + 1, IF out[i] # <<>> THEN DnLine(out[i], 1, results) ELSE results)

certificate_subject(out) == Return(OrNone(DnLoop(out, 1, EmptyDict)))

certificate_issuer(out) == Return(OrNone(DnLoop(out, 1, EmptyDict)))

PurposeSep == <<" ", ":", " ">>

RECURSIVE PurposeLoop(_, _, _)
PurposeLoop(out, i, results) ==
    IF i > Len(out) THEN results
    ELSE LET split == Split(out[i], PurposeSep) IN
         PurposeLoop(out, i + 1,
                     IF out[i] # <<>> /\ Len(split) = 2
                     THEN Put(results, split[1], split[2]) ELSE results)

certificate_purpose(out) == Return(OrNone(PurposeLoop(out, 1, EmptyDict)))

\* certificate_ocsp_uri without the test of line 102
certificate_ocsp_uri_NoTruthTest(out) ==
    IF Len(out) = 0 THEN Raise("IndexError") ELSE Return(Some(out[1]))

certificate_ocsp_uri(out) ==
    IF Len(out) = 0 THEN Raise("IndexError")
    ELSE IF out[1] # <<>> THEN Return(Some(out[1]))
    ELSE Return(None)

(* ------------------------------------------------------------------ *)
(* ssl_text_regexs, ssl_dns_regex and certificate_full                  *)
(* ------------------------------------------------------------------ *)
PublicKeyAlgorithmLit == <<"Public", " ", "Key", " ", "Algorithm", ":", " ">>

PublicKeyLit == <<"Public", "-", "Key", ":", " ", "(">>

SignatureAlgorithmLit == <<"Signature", " ", "Algorithm", ":", " ">>

\* '.*<lit>(?P<name>.*)': the group is the rest of the line after the last lit
RestMatch(lit, name, line) ==
    LET starts == {i \in 1..Len(line) : LitAt(lit, line, i)} IN
    IF starts = {} THEN None
    ELSE Some([k \in {name} |-> SubSeq(line, SetMax(starts) + Len(lit), Len(line))])

\* '.*Public-Key: \((?P<length>\d+).*\)': digits after the literal and a
\* closing parenthesis somewhere behind them
LengthMatch(line) ==
    LET starts == {i \in 1..Len(line) :
                     /\ LitAt(PublicKeyLit, line, i)
                     /\ RunEnd(Digits, line, i + Len(PublicKeyLit)) > i + Len(PublicKeyLit)
                     /\ \E j \in RunEnd(Digits, line, i + Len(PublicKeyLit))..Len(line) : line[j] = ")"}
    IN
    IF starts = {} THEN None
    ELSE LET b == SetMax(starts) + Len(PublicKeyLit) IN
         Some([k \in {"length"} |-> SubSeq(line, b, RunEnd(Digits, line, b) - 1)])

\* ssl_text_regexs[n].match(line)
TextMatch(n, line) ==
    CASE n = 1 -> RestMatch(PublicKeyAlgorithmLit, "public_key_algorithm", line)
      [] n = 2 -> LengthMatch(line)
      [] n = 3 -> RestMatch(SignatureAlgorithmLit, "signature_algorithm", line)

DnsCls == {t \in AllTokens : IsWord(t) \/ IsSpace(t) \/ t \in {"-", "."}}

\* ssl_dns_regex.findall(line), scanning from position i: the non-overlapping
\* matches of 'DNS:[\w\s\-\.]+' from left to right
RECURSIVE DnsFindall(_, _)
DnsFindall(line, i) ==
    IF i > Len(line) THEN <<>>
    ELSE LET e == RunEnd(DnsCls, line, i + 2) IN
         IF LitAt(<<"DNS", ":">>, line, i) /\ e > i + 2
         THEN <<SubSeq(line, i, e - 1)>> \o DnsFindall(line, e)
         ELSE DnsFindall(line, i + 1)

\* map(lambda x: x.split(':')[1], dns_matches), a list
DnsNames(dns_matches) == [n \in 1..Len(dns_matches) |-> Split(dns_matches[n], <<":">>)[2]]

\* results['names'] extended instead of assigned
SetNames_Accumulate(results, names) ==
    Put(results, "names", (IF "names" \in DOMAIN results THEN results["names"] ELSE <<>>) \o names)

\* results['names'] = <the names of this line>
SetNames(results, names) == Put(results, "names", names)

\* the inner loop of certificate_full for one line: `continue` goes on with
\* the next pattern, and the DNS check runs under every pattern that failed
RECURSIVE FullLine(_, _, _)
FullLine(line, n, results) ==
    IF n > 3 THEN results
    ELSE LET match_obj == TextMatch(n, line)
             dns_matches == DnsFindall(line, 1)
         IN
         IF match_obj # None THEN FullLine(line, n + 1, Update(results, match_obj[1]))
         ELSE IF dns_matches # <<>>
              THEN FullLine(line, n + 1, SetNames(results, DnsNames(dns_matches)))
              ELSE FullLine(line, n + 1, results)

RECURSIVE FullLoop(_, _, _)
FullLoop(out, i, results) ==
    IF i > Len(out) THEN results
    ELSE FullLoop(out, i + 1, FullLine(out[i], 1, results))

certificate_full(out) == Return(OrNone(FullLoop(out, 1, EmptyDict)))

(* ------------------------------------------------------------------ *)
(* What the command runner can return                                   *)
(* ------------------------------------------------------------------ *)
ValidFrom == <<"Jan", " ", " ", "1", " ", "0", "0", ":", "0", "0", ":", "0", "0", " ", "2", "0", "2", "0", " ", "GMT">>

ValidTo == <<"Feb", " ", "2", "9", " ", "1", "2", ":", "3", "0", ":", "0", "0", " ", "2", "0", "2", "8", " ", "GMT">>

DateLines ==
    { <<>>,
      <<"notBefore", "=">> \o ValidFrom,
      <<"notAfter", "=">> \o ValidTo,
      <<"bad", "=", "a">>,
      <<"bad">>,
      <<"a", "=", "b", "=", "c">>,
      <<"notBefore", "=", "bad">> }

SubjectLines ==
    { <<>>,
      <<"subject", "=", " ", "/", "C", "=", "US", "/", "CN", "=", "a">>,
      <<"subject", "=", " ", "/", "CN", "=", "c">>,
      <<"subject", "=", " ", "/", "C", "=", "US">>,
      <<"bad">> }

IssuerLines ==
    { <<>>,
      <<"issuer", "=", " ", "/", "O", "=", "Acme", ",", " ", "Inc", ".", "/", "CN", "=", "b">>,
      <<"bad">> }

PurposeLines ==
    { <<>>,
      <<"SSL", " ", "client", " ", ":", " ", "Yes">>,
      <<"Any", " ", "Purpose">>,
      <<"a", " ", ":", " ", "b", " ", ":", " ", "c">> }

OcspLines ==
    { <<>>,
      <<"http", ":", "/", "/", "ocsp", ".", "a">> }

TextLines ==
    { <<>>,
      PublicKeyAlgorithmLit \o <<"rsa">>,
      PublicKeyLit \o <<"2", "0", "4", "8", " ", "bit", ")">>,
      <<"DNS", ":", "a", ",", " ", "DNS", ":", "b">>,
      <<"DNS", ":", "a", ",", " ", "DNS", ":", "a">>,
      SignatureAlgorithmLit \o <<"DNS", ":", "b">>,
      PublicKeyAlgorithmLit \o PublicKeyLit \o <<"1", ")">> \o SignatureAlgorithmLit \o <<"DNS", ":", "b">> }

\* the sequences of at most n lines of L
Outputs(L, n) == UNION {[1..k -> L] : k \in 0..n}

(* ------------------------------------------------------------------ *)
(* ssl_analysis                                                         *)
(* ------------------------------------------------------------------ *)
VARIABLES
    pc,               \* the step ssl_analysis is about to run
    results,          \* the dictionary under construction
    additional_info,  \* what certificate_full returned
    openssl_out,      \* the lines certificate_full got from the command runner
    calls,            \* the flags of the command-runner calls so far
    steps,            \* the steps run so far, in order
    outcome,          \* "running", "results", "None" or "raised"
    failed_at,        \* the step whose exception ended the analysis, or ""
    unparsed,         \* extractors whose output had no line of their field
    tolerated         \* extractors whose output had only lines they skip

vars == <<pc, results, additional_info, openssl_out, calls, steps, outcome, failed_at, unparsed, tolerated>>

Extractors == {"dates", "subject", "issuer", "purpose", "ocsp_uri", "full"}

\* certificate_issuer calling the tool with the flag of certificate_subject
Flag_CopyPaste(step) ==
    CASE step = "dates" -> "-dates"
      [] step = "subject" -> "-subject"
      [] step = "issuer" -> "-subject"
      [] step = "purpose" -> "-purpose"
      [] step = "ocsp_uri" -> "-ocsp_uri"
      [] step = "full" -> "-text"

Flag(step) ==
    CASE step = "dates" -> "-dates"
      [] step = "subject" -> "-subject"
      [] step = "issuer" -> "-issuer"
      [] step = "purpose" -> "-purpose"
      [] step = "ocsp_uri" -> "-ocsp_uri"
      [] step = "full" -> "-text"

\* int(os.path.getmtime(filename)) of the one file of the model
Mtime == 1700000000

Init ==
    /\ pc = "precheck"
    /\ results = EmptyDict
    /\ additional_info = None
    /\ openssl_out = <<>>
    /\ calls = <<>>
    /\ steps = <<>>
    /\ outcome = "running"
    /\ failed_at = ""
    /\ unparsed = {}
    /\ tolerated = {}

\* the handler of the second try block: log and return None
Fail(step) ==
    /\ pc' = "done"
    /\ outcome' = "None"
    /\ failed_at' = step
    /\ UNCHANGED <<results, additional_info>>

\* what open(filename, 'r') can do: succeed, raise IOError, or raise an
\* exception of another class (TypeError for a path with a NUL character)
OpenOutcomes == {"ok", "IOError", "TypeError"}

\* the exception classes the first try block handles
PreCheckCaught == {"IOError"}

PreCheck ==
    /\ pc = "precheck"
    /\ \E o \in OpenOutcomes :
         IF o = "ok" THEN
            /\ pc' = "mtime"
            /\ UNCHANGED <<outcome, failed_at>>
         ELSE
            /\ pc' = "done"
            /\ outcome' = IF o \in PreCheckCaught THEN "None" ELSE "raised"
            /\ failed_at' = "precheck"
    /\ steps' = Append(steps, "precheck")
    /\ UNCHANGED <<results, additional_info, openssl_out, calls, unparsed, tolerated>>

GetMtime ==
    /\ pc = "mtime"
    /\ steps' = Append(steps, "mtime")
    /\ \E ok \in BOOLEAN :
         IF ok THEN
            /\ results' = Put(results, "modified", Mtime)
            /\ pc' = "dates"
            /\ UNCHANGED <<additional_info, outcome, failed_at>>
         ELSE Fail("mtime")
    /\ UNCHANGED <<openssl_out, calls, unparsed, tolerated>>

\* a line certificate_dates turns into a start or end entry
DateLineRecognised(line) ==
    /\ line # <<>>
    /\ Len(Split(line, <<"=">>)) = 2
    /\ Split(line, <<"=">>)[1] \in DOMAIN DateKeys
    /\ DateOk(Split(line, <<"=">>)[2])

\* a line certificate_dates passes over: empty, or key=value with another key
DateLineSkipped(line) ==
    \/ line = <<>>
    \/ /\ Len(Split(line, <<"=">>)) = 2
       /\ Split(line, <<"=">>)[1] \notin DOMAIN DateKeys

DnLineRecognised(line) == \E n \in 1..Len(ssl_regexs) : DnMatch(ssl_regexs[n], line) # None

PurposeLineRecognised(line) == line # <<>> /\ Len(Split(line, PurposeSep)) = 2

\* the output of the step's tool holds nothing the step can parse its field from
NoField(step, out) ==
    CASE step = "dates" -> \A i \in 1..Len(out) : ~DateLineRecognised(out[i])
      [] step \in {"subject", "issuer"} -> \A i \in 1..Len(out) : ~DnLineRecognised(out[i])
      [] step = "purpose" -> \A i \in 1..Len(out) : ~PurposeLineRecognised(out[i])
      [] step = "ocsp_uri" -> Len(out) = 0 \/ out[1] = <<>>
      [] OTHER -> FALSE

\* ... and every line of it is one the step passes over without raising
OnlySkipped(step, out) ==
    CASE step = "dates" -> \A i \in 1..Len(out) : DateLineSkipped(out[i])
      [] step \in {"subject", "issuer"} -> \A i \in 1..Len(out) : ~DnLineRecognised(out[i])
      [] step = "purpose" -> \A i \in 1..Len(out) : ~PurposeLineRecognised(out[i])
      [] step = "ocsp_uri" -> Len(out) > 0 /\ out[1] = <<>>
      [] OTHER -> FALSE

\* one extractor call of ssl_analysis: the command runner is called once and
\* returns out; r is what the extractor makes of it
Call(step, out, r, key, next) ==
    /\ pc = step
    /\ calls' = Append(calls, Flag(step))
    /\ steps' = Append(steps, step)
    /\ UNCHANGED openssl_out
    /\ unparsed' = IF NoField(step, out) THEN unparsed \cup {step} ELSE unparsed
    /\ tolerated' = IF OnlySkipped(step, out) THEN tolerated \cup {step} ELSE tolerated
    /\ IF r.exc # "" THEN Fail(step)
       ELSE /\ results' = Put(results, key, r.val)
            /\ pc' = next
            /\ UNCHANGED <<additional_info, outcome, failed_at>>

Dates ==
    \E out \in Outputs(DateLines, MaxLines) :
        Call("dates", out, certificate_dates(out), "dates", "subject")

Subject ==
    \E out \in Outputs(SubjectLines, MaxLines) :
        Call("subject", out, certificate_subject(out), "subject", "issuer")

Issuer ==
    \E out \in Outputs(IssuerLines, MaxLines) :
        Call("issuer", out, certificate_issuer(out), "issuer", "purpose")

Purpose ==
    \E out \in Outputs(PurposeLines, MaxLines) :
        Call("purpose", out, certificate_purpose(out), "purpose", "ocsp_uri")

OcspUri ==
    \E out \in Outputs(OcspLines, MaxLines) :
        Call("ocsp_uri", out, certificate_ocsp_uri(out), "ocsp_uri", "full")

\* results.get('names'): a non-empty list
HasNames(res) == "names" \in DOMAIN res /\ res["names"] # <<>>

InList(x, list) == \E i \in 1..Len(list) : list[i] = x

\* Reconcile that leaves an existing list alone
Reconcile_NoAppend(res, common_name) ==
    IF HasNames(res) THEN res ELSE Put(res, "names", <<common_name>>)

\* Reconcile without the membership test of line 174
Reconcile_AlwaysAppend(res, common_name) ==
    IF HasNames(res)
    THEN Put(res, "names", Append(res["names"], common_name))
    ELSE Put(res, "names", <<common_name>>)

\* lines 173-177, once the common name has been read
Reconcile(res, common_name) ==
    IF HasNames(res)
    THEN IF ~InList(common_name, res["names"])
         THEN Put(res, "names", Append(res["names"], common_name))
         ELSE res
    ELSE Put(res, "names", <<common_name>>)

\* lines 167-171
Merge(res, info) ==
    LET merged == IF info # None THEN Update(res, info[1]) ELSE res IN
    IF "length" \in DOMAIN merged
    THEN Put(merged, "length", ToInt(merged["length"]))
    ELSE merged

\* results['subject']['common_name'] can be read
HasCommonName(res) == res["subject"] # None /\ "common_name" \in DOMAIN res["subject"][1]

\* PostProcess that returns the merged record when no common name can be read
PostProcess_SkipMissingName(res, info) ==
    LET merged == Merge(res, info) IN
    IF HasCommonName(merged)
    THEN Return(Reconcile(merged, merged["subject"][1]["common_name"]))
    ELSE Return(merged)

\* lines 167-177: merge, coerce the length, reconcile names and common name;
\* reading the common name of an absent subject (TypeError) or of a subject
\* without one (KeyError) raises
PostProcess(res, info) ==
    LET merged == Merge(res, info) IN
    IF merged["subject"] = None THEN Raise("TypeError")
    ELSE IF ~HasCommonName(merged) THEN Raise("KeyError")
    ELSE Return(Reconcile(merged, merged["subject"][1]["common_name"]))

\* the full-text call and lines 167-177 behind it
Full ==
    \E out \in Outputs(TextLines, MaxTextLines) :
        /\ pc = "full"
        /\ calls' = Append(calls, Flag("full"))
        /\ steps' = Append(steps, "full")
        /\ openssl_out' = out
        /\ additional_info' = certificate_full(out).val
        /\ pc' = "done"
        /\ LET r == PostProcess(results, additional_info') IN
           IF r.exc = "" THEN
              /\ results' = r.val
              /\ outcome' = "results"
              /\ UNCHANGED failed_at
           ELSE
              /\ outcome' = "None"
              /\ failed_at' = "post"
              /\ UNCHANGED results
        /\ UNCHANGED <<unparsed, tolerated>>

Next ==
    \/ PreCheck
    \/ GetMtime
    \/ Dates
    \/ Subject
    \/ Issuer
    \/ Purpose
    \/ OcspUri
    \/ Full

Spec == Init /\ [][Next]_vars

(* ================================================================== *)
(* Properties                                                           *)
(* ================================================================== *)
Done == pc = "done"

Returned == outcome = "results"

FieldSteps == {"dates", "issuer", "purpose", "ocsp_uri"}

InfoHasNames == additional_info # None /\ "names" \in DOMAIN additional_info[1]

InfoNames == additional_info[1]["names"]

CommonName == results["subject"][1]["common_name"]

NoDuplicates(list) == \A i, j \in 1..Len(list) : list[i] = list[j] => i = j

\* C1: ssl_analysis ends with a result record or with None; no exception of
\* the pre-check, of an extractor or of the post-processing reaches the caller.
C1_NoFailureReachesCaller == outcome # "raised"

\* C2: when the readability pre-check fails, ssl_analysis returns None and the
\* command runner has received no call.
C2_PreCheckFailureReturnsNone ==
    (Done /\ failed_at = "precheck") => (outcome = "None" /\ calls = <<>>)

C4_NamesHoldCommonName ==
    Returned =>
        /\ results["names"] # <<>>
        /\ InList(CommonName, results["names"])
        /\ (InfoHasNames /\ ~InList(CommonName, InfoNames))
              => results["names"] = Append(InfoNames, CommonName)
        /\ (InfoHasNames /\ InList(CommonName, InfoNames))
              => results["names"] = InfoNames
        /\ ~InfoHasNames => results["names"] = <<CommonName>>

C4_Witness == Returned /\ InfoHasNames /\ ~InList(CommonName, InfoNames)

\* C5: subject, issuer and purpose, as returned by their extractors and as
\* stored in the result, are None or a mapping with at least one entry.
C5_NoEmptySubMap ==
    \A k \in {"subject", "issuer", "purpose"} :
        k \in DOMAIN results => (results[k] = None \/ DOMAIN results[k][1] # {})

C5_Witness ==
    /\ Returned
    /\ results["issuer"] = None
    /\ results["purpose"] # None

\* C6 as claimed: in every returned result no name occurs twice in names.
C6_NamesUnique == Returned => NoDuplicates(results["names"])

\* C6 amended: in every returned result no name occurs twice in names, provided
\* the names taken from the dump are themselves pairwise distinct; the
\* reconciliation with the common name never adds a duplicate.
C6_NamesUniqueIfDumpNamesAre ==
    (Returned /\ (InfoHasNames => NoDuplicates(InfoNames)))
        => NoDuplicates(results["names"])

C6_Witness ==
    /\ Returned
    /\ InfoHasNames
    /\ Len(InfoNames) = 2
    /\ NoDuplicates(InfoNames)
    /\ InList(CommonName, InfoNames)

MatchesSomePattern(line) == \E n \in 1..3 : TextMatch(n, line) # None

MatchesAllPatterns(line) == \A n \in 1..3 : TextMatch(n, line) # None

HasDnsTokens(line) == DnsFindall(line, 1) # <<>>

\* C7: a line that one of the three algorithm/key patterns matches never
\* changes names: when every line with DNS tokens is such a line, the dump
\* yields no names.
C7_SanSkippedOnPatternLines ==
    (/\ Done
     /\ failed_at \in {"", "post"}
     /\ \A i \in 1..Len(openssl_out) :
            HasDnsTokens(openssl_out[i]) => MatchesSomePattern(openssl_out[i]))
        => ~InfoHasNames

\* the lines on which certificate_full assigns names
ScannedLines ==
    {i \in 1..Len(openssl_out) :
        HasDnsTokens(openssl_out[i]) /\ ~MatchesAllPatterns(openssl_out[i])}

\* C8 as claimed: names accumulates over the lines: the names of every line
\* whose DNS tokens were collected are still in names after the whole dump.
C8_NamesAccumulate ==
    (Done /\ failed_at \in {"", "post"}) =>
        \A i \in ScannedLines :
            /\ InfoHasNames
            /\ \A n \in 1..Len(DnsFindall(openssl_out[i], 1)) :
                   InList(DnsNames(DnsFindall(openssl_out[i], 1))[n], InfoNames)

\* C8 amended: names does not accumulate: after the whole dump it holds the
\* names after the ':' of the DNS tokens, in order, of the last line that has
\* DNS tokens and that not all three algorithm/key patterns match; the names
\* of earlier lines are replaced, and without such a line there is no names.
C8_LastSanLineWins ==
    (Done /\ failed_at \in {"", "post"}) =>
        IF ScannedLines = {} THEN ~InfoHasNames
        ELSE /\ InfoHasNames
             /\ InfoNames = DnsNames(DnsFindall(openssl_out[SetMax(ScannedLines)], 1))

C8_Witness ==
    /\ Done
    /\ Cardinality(ScannedLines) = 2
    /\ DnsFindall(openssl_out[1], 1) # DnsFindall(openssl_out[2], 1)
    /\ InfoNames = DnsNames(DnsFindall(openssl_out[2], 1))

\* C9: when the subject extractor recovers no common name the analysis
\* returns None whatever the other extractors produced; every returned result
\* has a subject with a common_name entry.
C9_NoCommonNameNoResult ==
    /\ Returned => HasCommonName(results)
    /\ (Done /\ "subject" \in DOMAIN results /\ ~HasCommonName(results)) => outcome = "None"

C9_Witness ==
    /\ Done
    /\ failed_at = "post"
    /\ results["subject"] # None
    /\ results["issuer"] # None
    /\ InfoHasNames

StepOrder == <<"precheck", "mtime", "dates", "subject", "issuer", "purpose", "ocsp_uri", "full">>

FlagOrder == <<"-dates", "-subject", "-issuer", "-purpose", "-ocsp_uri", "-text">>

\* C10: the steps run one after the other in the order modification time,
\* dates, subject, issuer, purpose, OCSP URI, full text; each extractor that
\* ran made exactly one command-runner call; a returned result has made
\* exactly six calls; the step that fails is the last step run.
C10_StepsInOrder ==
    /\ Len(steps) <= Len(StepOrder)
    /\ steps = SubSeq(StepOrder, 1, Len(steps))
    /\ Len(calls) = Cardinality({i \in 1..Len(steps) : steps[i] \in Extractors})
    /\ calls = SubSeq(FlagOrder, 1, Len(calls))
    /\ Returned => Len(calls) = 6
    /\ failed_at \notin {"", "post"} => (Done /\ steps[Len(steps)] = failed_at)
    /\ failed_at = "post" => (Done /\ steps[Len(steps)] = "full")
    /\ ~Done => pc = StepOrder[Len(steps) + 1]

C10_Witness == Returned /\ Len(calls) = 6 /\ Len(steps) = 8

====
